---- MODULE Spec2Model ----
(***************************************************************************)
(* A model of the charm repository: the charm store backend (CharmStore,   *)
(* charmstore.go) with its shared archive cache, and the git backend       *)
(* (GitRepo).  Every call of a repository method is one thread of control, *)
(* identified by an element of Calls; calls run concurrently and share the *)
(* file system.                                                            *)
(***************************************************************************)
EXTENDS Integers, Sequences, FiniteSets, TLC

\* ------------------------------------------------------------------ bounds
NumCalls == 2
MaxBody == 2
MaxRefs == 3

\* The repositories made are at most MaxRepos.
MaxRepos == 3

Calls == 1..NumCalls
Bytes == {0, 1}

\* ------------------------------------------------------------ charm.URL
Names == {"wordpress"}
AllSeries == {"", "trusty", "bundle"}
Revisions == {-1, 0, 1}
URLs == [name : Names, series : AllSeries, rev : Revisions]

NoURL == [name |-> "", series |-> "", rev |-> -1]

WithRevision(u, n) == [u EXCEPT !.rev = n]

Digit == <<"0", "1", "2", "3", "4", "5", "6", "7", "8", "9">>

RECURSIVE Itoa(_)
\* strconv.Itoa of a revision (never negative where it is printed)
Itoa(n) ==
    IF n < 10 THEN <<Digit[n + 1]>>
    ELSE Itoa(n \div 10) \o <<Digit[(n % 10) + 1]>>

\* charm.URL.String: "cs:series/name-rev"; the series and the revision are
\* left out when they are unset.
String(u) ==
    (IF u.series = "" THEN <<"cs:">> ELSE <<"cs:", u.series, "/">>)
        \o <<u.name>>
        \o (IF u.rev = -1 THEN <<>> ELSE <<"-">> \o Itoa(u.rev))

\* ------------------------------------------------------------ errgo
NoErr == [msg |-> "", cause |-> ""]

Newf(m) == [msg |-> m, cause |-> "self"]

\* errgo.Cause: the recorded cause, or the error itself when none is recorded.
Cause(e) == IF e.cause = "self" THEN e.msg ELSE e.cause

WithCausef(c, m) == [msg |-> m, cause |-> c]

\* errgo.Mask(err) and errgo.Notef(err, ...): the cause is hidden.
Notef(e, m) == [msg |-> m, cause |-> "self"]

\* errgo.Mask(err, errgo.Any) and errgo.NoteMask(err, msg, errgo.Any): the
\* cause is kept.
NoteMaskAny(e, m) == [msg |-> m, cause |-> Cause(e)]

MaskAny(e) == [msg |-> e.msg, cause |-> Cause(e)]

ErrNotFound == "params.ErrNotFound"

\* ------------------------------------------------------------ sha512.New384
HexDigit == <<"0", "1", "2", "3", "4", "5", "6", "7",
              "8", "9", "a", "b", "c", "d", "e", "f">>

RECURSIVE Sprintfx(_)
\* fmt.Sprintf("%x", sum)
Sprintfx(n) ==
    IF n < 16 THEN <<HexDigit[n + 1]>>
    ELSE Sprintfx(n \div 16) \o <<HexDigit[(n % 16) + 1]>>

\* hash.Write of one byte: the digest is idealised as collision free (its
\* state is the bijective base-3 numeral of the bytes written so far).
HashWrite(h, b) == 3 * h + b + 1

RECURSIVE Sum384(_)
Sum384(s) ==
    IF s = <<>> THEN 0
    ELSE HashWrite(Sum384(SubSeq(s, 1, Len(s) - 1)), s[Len(s)])

\* ------------------------------------------------------------ the registry
\* The entity a reference resolves to: the store fills in the series and the
\* latest revision.
EntityId(u) ==
    [name |-> u.name,
     series |-> IF u.series = "" THEN "trusty" ELSE u.series,
     rev |-> IF u.rev = -1 THEN 1 ELSE u.rev]

\* The archive the store holds for an entity.
Archive(id) == IF id.series = "bundle" THEN <<0, 1>> ELSE <<1>>

\* The errors csclient.GetArchive returns.
GetArchiveErrors ==
    {[msg |-> "no matching charm or bundle", cause |-> ErrNotFound],
     [msg |-> "cannot get archive: connection refused", cause |-> "self"]}

\* ------------------------------------------------------------ GitRepo
RECURSIVE Split(_, _)
\* strings.Split(s, sep) for a one-character separator
Split(s, sep) ==
    IF \A i \in 1..Len(s) : s[i] # sep THEN <<s>>
    ELSE LET i == CHOOSE k \in 1..Len(s) :
                      s[k] = sep /\ \A j \in 1..(k - 1) : s[j] # sep
         IN  <<SubSeq(s, 1, i - 1)>> \o Split(SubSeq(s, i + 1, Len(s)), sep)

NoGitRepo == [remoteURI |-> <<>>, reference |-> <<>>]

NewGitRepo(name) ==
    LET tokens == Split(name, "?")
    IN  [remoteURI |-> tokens[1],
         reference |-> IF Len(tokens) > 1 THEN tokens[2] ELSE <<"H", "E", "A", "D">>]

\* The names git repositories are made from: "r", "r?b" and "r?b?x".
GitNames == {<<"r">>, <<"r", "?", "b">>, <<"r", "?", "b", "?", "x">>}

\* The charms a working tree may hold: the revision and the supported series
\* its metadata declares.
CharmsOnDisk == [revision : {0, 2}, series : {<<>>, <<"trusty">>, <<"xenial">>}]

\* ------------------------------------------------------------ clients
\* A csclient.Client as csclient.New returns it: no extra header, stats
\* counted.
NewClient == [header |-> <<>>, statsDisabled |-> FALSE]

\* No request sent yet.
NoRequest == [repo |-> 0, header |-> <<>>, stats |-> <<>>]

\* The keys and values of the attributes WithJujuAttrs is called with.
AttrKeys == {<<"a">>, <<"b">>}

AttrValues == {<<"x">>, <<"y">>}

\* The maps attrs may be.
AttrMaps == UNION {[K -> AttrValues] : K \in SUBSET AttrKeys}

\* k+"="+v
KeyValue(k, v) == k \o <<"=">> \o v

\* The values of the Juju-Metadata header WithJujuAttrs builds: one
\* header.Add per pair of the map, in any order of the map's keys.
JujuMetadataHeaders(attrs) ==
    LET pairs == {KeyValue(k, attrs[k]) : k \in DOMAIN attrs}
    IN  {h \in [1..Cardinality(DOMAIN attrs) -> pairs] :
            \A p \in pairs : \E i \in DOMAIN h : h[i] = p}

\* ------------------------------------------------------------ state
VARIABLES
    CacheDir,   \* the package variable CacheDir ("" when unset)
    dirs,       \* the directories that exist
    files,      \* the regular files that exist: path -> content
    before,     \* history: the files and directories when the program started
    tmpSeq,     \* the number of temporary files ioutil.TempFile has named
    pc,         \* each call's position
    loc,        \* each call's arguments, locals and effect counters
    result,     \* each call's return value
    repos,      \* the CharmStore values: each holds the address of its client
    clients,    \* the csclient.Client objects, by address
    sent        \* what the last request of a client carried

vars == <<CacheDir, dirs, files, before, tmpSeq, pc, loc, result, repos, clients, sent>>

\* The variables of the repositories and their clients, and those of the calls.
storeVars == <<repos, clients, sent>>

callVars == <<CacheDir, dirs, files, before, tmpSeq, pc, loc, result>>

NoCharm == [revision |-> -1, series |-> <<>>, tree |-> <<>>]

ContentsUpTo(n) == UNION {[1..k -> Bytes] : k \in 0..n}

NoLoc ==
    [op |-> "", curl |-> NoURL, etype |-> "",
     r |-> "none", id |-> NoURL, expectHash |-> <<>>, expectSize |-> -1,
     path |-> <<>>,
     fetchErr |-> NoErr,
     vf |-> "none", vdata |-> <<>>, vioerr |-> FALSE,
     f |-> "none", fname |-> <<>>, size |-> 0, hash |-> 0,
     requests |-> 0, mkdirs |-> 0, temps |-> 0, renames |-> 0, copied |-> 0,
     g |-> NoGitRepo, clones |-> 0, tempdirs |-> 0, ch |-> NoCharm,
     curls |-> <<>>, response |-> <<>>]

NoResult ==
    [kind |-> "none", path |-> <<>>, err |-> NoErr, url |-> NoURL,
     charm |-> NoCharm, revs |-> <<>>]

ReturnPath(p) == [NoResult EXCEPT !.kind = "value", !.path = p]

ReturnErr(e) == [NoResult EXCEPT !.kind = "error", !.err = e]

ReturnURL(u) == [NoResult EXCEPT !.kind = "value", !.url = u]

ReturnCharm(p, ch) == [NoResult EXCEPT !.kind = "value", !.path = p, !.charm = ch]

ReturnRevs(rs) == [NoResult EXCEPT !.kind = "value", !.revs = rs]

Panic(m) == [NoResult EXCEPT !.kind = "panic", !.err = Newf(m)]

\* filepath.Join(CacheDir, charm.Quote(id.String())+"."+etype)
CanonicalPath(dir, id, etype) == <<dir, "/">> \o String(id) \o <<".", etype>>

\* Mutant: the temporary file is made in the system's temporary directory.
TempNameInTmp(dir, n) == <<"/tmp", "/", "charm-download">> \o Itoa(n)

\* The name ioutil.TempFile(CacheDir, "charm-download") picks: a fresh one.
TempName(dir, n) == <<dir, "/", "charm-download">> \o Itoa(n)

Exists(p) == p \in DOMAIN files

WriteFile(fs, p, data) == [q \in DOMAIN fs \cup {p} |-> IF q = p THEN data ELSE fs[q]]

RemoveFile(fs, p) == [q \in DOMAIN fs \ {p} |-> fs[q]]

\* utils.ReplaceFile: an atomic rename over the destination.
ReplaceFile(fs, from, to) == RemoveFile(WriteFile(fs, to, fs[from]), from)

\* ------------------------------------------------------------ start
\* The references the concurrent calls of Spec are made with.
SpecURLs ==
    {[name |-> "wordpress", series |-> "trusty", rev |-> -1],
     [name |-> "wordpress", series |-> "bundle", rev |-> 0]}

EtypeOf(curl) == IF curl.series = "bundle" THEN "bundle" ELSE "charm"

\* A stale or damaged cache entry left by an earlier run.
StaleContent == <<0>>

\* What the cache directory may hold when the program starts: for each
\* entity nothing, its archive, or a stale entry.
InitFiles(dir) ==
    LET paths == {CanonicalPath(dir, EntityId(u), EtypeOf(u)) : u \in SpecURLs}
        entity(p) == CHOOSE u \in SpecURLs :
                        CanonicalPath(dir, EntityId(u), EtypeOf(u)) = p
    IN  UNION {{fs \in [S -> ContentsUpTo(MaxBody)] :
                    \A p \in S : fs[p] \in {Archive(EntityId(entity(p))), StaleContent}}
               : S \in SUBSET paths}

Init ==
    /\ CacheDir \in {"", "/var/cache/charm"}
    /\ \/ /\ CacheDir = ""
          /\ dirs = {}
          /\ files = <<>>
       \/ /\ CacheDir # ""
          /\ files \in InitFiles(CacheDir)
          /\ dirs \in {{CacheDir}} \cup (IF files = <<>> THEN {{}} ELSE {})
    /\ before = [files |-> files, dirs |-> dirs]
    /\ tmpSeq = 0
    /\ pc = [c \in Calls |-> "idle"]
    /\ loc = [c \in Calls |-> NoLoc]
    /\ result = [c \in Calls |-> NoResult]
    /\ clients = <<NewClient>>
    /\ repos = <<[client |-> 1]>>
    /\ sent = NoRequest

\* ------------------------------------------------------------ CharmStore
\* Mutant: the check of the cache directory is left out.
CacheDirNeverUnset == FALSE

CacheDirUnset == CacheDir = ""

\* Mutant: no URL is taken for a bundle URL.
IsBundleURLNever(curl) == FALSE

IsBundleURL(curl) == curl.series = "bundle"

\* Mutant: the response is not closed when archivePath returns.
DeferredLeavesResponse(l) ==
    [l EXCEPT !.f = IF @ = "none" THEN "none" ELSE "closed"]

\* The deferred r.Close() and f.Close() of archivePath.
Deferred(l) ==
    [l EXCEPT !.r = IF @ = "none" THEN "none" ELSE "closed",
              !.f = IF @ = "none" THEN "none" ELSE "closed"]

\* Mutant: the error is masked without errgo.Any, which hides its cause.
GetMaskHidesCause(e) == Notef(e, e.msg)

\* Get and GetBundle return archivePath's error as errgo.Mask(err, errgo.Any).
GetMask(e) == MaskAny(e)

\* archivePath returns an error to Get or GetBundle, which returns it masked.
Fail(c, l, e) ==
    /\ pc' = [pc EXCEPT ![c] = "done"]
    /\ loc' = [loc EXCEPT ![c] = Deferred(l)]
    /\ result' = [result EXCEPT ![c] = ReturnErr(GetMask(e))]

\* archivePath returns the path; Get or GetBundle reads the archive there.
Succeed(c, l) ==
    /\ pc' = [pc EXCEPT ![c] = "done"]
    /\ loc' = [loc EXCEPT ![c] = Deferred(l)]
    /\ result' = [result EXCEPT ![c] = ReturnPath(l.path)]

\* Get and GetBundle up to their call of archivePath.
Enter(c, op, curl, mismatch, msg) ==
    /\ pc[c] = "idle"
    /\ loc' = [loc EXCEPT ![c] = [NoLoc EXCEPT !.op = op, !.curl = curl]]
    /\ IF CacheDirUnset
       THEN /\ pc' = [pc EXCEPT ![c] = "done"]
            /\ result' = [result EXCEPT ![c] =
                            Panic("charm cache directory path is empty")]
       ELSE IF mismatch
       THEN /\ pc' = [pc EXCEPT ![c] = "done"]
            /\ result' = [result EXCEPT ![c] = ReturnErr(Newf(msg))]
       ELSE /\ pc' = [pc EXCEPT ![c] = "MkdirAll"]
            /\ UNCHANGED result
    /\ UNCHANGED <<storeVars, CacheDir, dirs, files, before, tmpSeq>>

CharmStoreGet(c, curl) ==
    Enter(c, "Get", curl, IsBundleURL(curl), "expected a charm URL, got bundle URL")

CharmStoreGetBundle(c, curl) ==
    Enter(c, "GetBundle", curl, ~IsBundleURL(curl), "expected a bundle URL, got charm URL")

\* os.MkdirAll(CacheDir, 0755), and the choice of etype
MkdirAll(c) ==
    /\ pc[c] = "MkdirAll"
    /\ LET l == [loc[c] EXCEPT !.etype = EtypeOf(loc[c].curl)]
       IN  \/ /\ dirs' = dirs \cup {CacheDir}
              /\ pc' = [pc EXCEPT ![c] = "GetArchive"]
              /\ loc' = [loc EXCEPT ![c] =
                            [l EXCEPT !.mkdirs = IF CacheDir \in dirs THEN @ ELSE @ + 1]]
              /\ UNCHANGED result
           \/ /\ CacheDir \notin dirs
              /\ Fail(c, l, Notef(Newf("mkdir: permission denied"),
                                  "cannot create the cache directory"))
              /\ UNCHANGED dirs
    /\ UNCHANGED <<storeVars, CacheDir, files, before, tmpSeq>>

\* The error archivePath returns when GetArchive fails.
GetArchiveFailure(e, curl) ==
    IF Cause(e) = ErrNotFound
    THEN WithCausef(ErrNotFound, "cannot retrieve: not found")
    ELSE NoteMaskAny(e, "cannot retrieve")

\* s.client.GetArchive(curl.Reference()), and the canonical path
GetArchive(c) ==
    /\ pc[c] = "GetArchive"
    /\ LET l == [loc[c] EXCEPT !.requests = @ + 1]
       IN  \/ \E e \in GetArchiveErrors :
                Fail(c, [l EXCEPT !.fetchErr = e], GetArchiveFailure(e, l.curl))
           \/ LET id == EntityId(l.curl)
              IN  /\ loc' = [loc EXCEPT ![c] =
                        [l EXCEPT !.r = "open",
                                  !.id = id,
                                  !.expectHash = Sprintfx(Sum384(Archive(id))),
                                  !.expectSize = Len(Archive(id)),
                                  !.path = CanonicalPath(CacheDir, id, l.etype)]]
                  /\ pc' = [pc EXCEPT ![c] = "verifyOpen"]
                  /\ UNCHANGED result
    /\ UNCHANGED <<storeVars, CacheDir, dirs, files, before, tmpSeq>>

\* Mutant: a call that finds no cache entry waits while another call is
\* downloading the same entity.
VerifyOpenWaits(c) ==
    /\ pc[c] = "verifyOpen"
    /\ \/ /\ Exists(loc[c].path)
          /\ loc' = [loc EXCEPT ![c].vf = "open", ![c].vdata = files[loc[c].path]]
          /\ pc' = [pc EXCEPT ![c] = "verifyRead"]
       \/ /\ \A d \in Calls \ {c} :
                ~(/\ pc[d] \in {"TempFile", "Copy", "Check", "Close", "ReplaceFile"}
                  /\ loc[d].path = loc[c].path)
          /\ pc' = [pc EXCEPT ![c] = "TempFile"]
          /\ UNCHANGED loc
    /\ UNCHANGED <<storeVars, CacheDir, dirs, files, before, tmpSeq, result>>

\* verifyHash384AndSize: os.Open(path)
VerifyOpen(c) ==
    /\ pc[c] = "verifyOpen"
    /\ \/ /\ Exists(loc[c].path)
          /\ loc' = [loc EXCEPT ![c].vf = "open", ![c].vdata = files[loc[c].path]]
          /\ pc' = [pc EXCEPT ![c] = "verifyRead"]
       \/ /\ pc' = [pc EXCEPT ![c] = "TempFile"]
          /\ UNCHANGED loc
    /\ UNCHANGED <<storeVars, CacheDir, dirs, files, before, tmpSeq, result>>

\* Mutant: the result of the comparison is inverted.
VerifiedInverted(data, expectHash, expectSize) ==
    ~(/\ Len(data) = expectSize
      /\ Sprintfx(Sum384(data)) = expectHash)

\* Mutant: only the size is compared.
VerifiedSizeOnly(data, expectHash, expectSize) == Len(data) = expectSize

\* verifyHash384AndSize's comparison of what io.Copy(hash, f) read.
Verified(data, expectHash, expectSize) ==
    /\ Len(data) = expectSize
    /\ Sprintfx(Sum384(data)) = expectHash

\* verifyHash384AndSize: io.Copy(hash, f), the comparisons, the deferred
\* f.Close(); archivePath returns the path when it returned nil.
VerifyRead(c) ==
    /\ pc[c] = "verifyRead"
    /\ LET l == [loc[c] EXCEPT !.vf = "closed"]
       IN  \/ /\ Verified(l.vdata, l.expectHash, l.expectSize)
              /\ Succeed(c, l)
           \/ /\ ~Verified(l.vdata, l.expectHash, l.expectSize)
              /\ pc' = [pc EXCEPT ![c] = "TempFile"]
              /\ loc' = [loc EXCEPT ![c] = l]
              /\ UNCHANGED result
           \/ \* io.Copy fails
              /\ pc' = [pc EXCEPT ![c] = "TempFile"]
              /\ loc' = [loc EXCEPT ![c] = [l EXCEPT !.vioerr = TRUE]]
              /\ UNCHANGED result
    /\ UNCHANGED <<storeVars, CacheDir, dirs, files, before, tmpSeq>>

\* ioutil.TempFile(CacheDir, "charm-download")
TempFile(c) ==
    /\ pc[c] = "TempFile"
    /\ \/ /\ Fail(c, loc[c], Notef(Newf("open: too many open files"),
                                   "cannot make temporary file"))
          /\ UNCHANGED <<files, tmpSeq>>
       \/ LET name == TempName(CacheDir, tmpSeq)
          IN  /\ CacheDir \in dirs
              /\ files' = WriteFile(files, name, <<>>)
              /\ tmpSeq' = tmpSeq + 1
              /\ loc' = [loc EXCEPT ![c].f = "open", ![c].fname = name,
                                    ![c].temps = @ + 1]
              /\ pc' = [pc EXCEPT ![c] = "Copy"]
              /\ UNCHANGED result
    /\ UNCHANGED <<storeVars, CacheDir, dirs, before>>

\* Mutant: the download is written straight to the canonical path.
DownloadFileInPlace(l) == l.path

\* The file the download is written to.
DownloadFile(l) == l.fname

\* io.Copy(io.MultiWriter(hash, f), r): one byte read from the response and
\* written to the hash and to the file.
CopyByte(c) ==
    /\ pc[c] = "Copy"
    /\ loc[c].size < MaxBody
    /\ \E b \in Bytes :
        LET l == loc[c]
            to == DownloadFile(l)
        IN  /\ files' = WriteFile(files, to,
                            (IF Exists(to) THEN files[to] ELSE <<>>) \o <<b>>)
            /\ loc' = [loc EXCEPT ![c].hash = HashWrite(l.hash, b),
                                  ![c].size = l.size + 1,
                                  ![c].copied = l.copied + 1]
    /\ UNCHANGED <<storeVars, CacheDir, dirs, before, tmpSeq, pc, result>>

\* io.Copy returns at the end of the response.
CopyEOF(c) ==
    /\ pc[c] = "Copy"
    /\ pc' = [pc EXCEPT ![c] = "Check"]
    /\ UNCHANGED <<storeVars, CacheDir, dirs, files, before, tmpSeq, loc, result>>

\* io.Copy returns an error.
CopyErr(c) ==
    /\ pc[c] = "Copy"
    /\ Fail(c, loc[c], Notef(Newf("unexpected EOF"), "cannot read entity archive"))
    /\ UNCHANGED <<storeVars, CacheDir, dirs, files, before, tmpSeq>>

SizeMatches(size, expectSize) == size = expectSize

\* Mutant: the hash comparison is left out.
HashMatchesAlways(hash, expectHash) == TRUE

HashMatches(hash, expectHash) == Sprintfx(hash) = expectHash

\* The size and hash comparisons after the copy.
Check(c) ==
    /\ pc[c] = "Check"
    /\ LET l == loc[c]
       IN  IF ~SizeMatches(l.size, l.expectSize)
           THEN Fail(c, l, Newf("size mismatch; network corruption?"))
           ELSE IF ~HashMatches(l.hash, l.expectHash)
           THEN Fail(c, l, Newf("hash mismatch; network corruption?"))
           ELSE /\ pc' = [pc EXCEPT ![c] = "Close"]
                /\ UNCHANGED <<loc, result>>
    /\ UNCHANGED <<storeVars, CacheDir, dirs, files, before, tmpSeq>>

\* Mutant: the handle is left open when the file is moved.
CloseSkipped(c) ==
    /\ pc[c] = "Close"
    /\ pc' = [pc EXCEPT ![c] = "ReplaceFile"]
    /\ UNCHANGED <<storeVars, CacheDir, dirs, files, before, tmpSeq, loc, result>>

\* f.Close() before the move
Close(c) ==
    /\ pc[c] = "Close"
    /\ loc' = [loc EXCEPT ![c].f = "closed"]
    /\ pc' = [pc EXCEPT ![c] = "ReplaceFile"]
    /\ UNCHANGED <<storeVars, CacheDir, dirs, files, before, tmpSeq, result>>

\* utils.ReplaceFile(f.Name(), path)
Replace(c) ==
    /\ pc[c] = "ReplaceFile"
    /\ LET l == loc[c]
       IN  \/ /\ Exists(l.fname)
              /\ files' = ReplaceFile(files, l.fname, l.path)
              /\ Succeed(c, [l EXCEPT !.renames = @ + 1])
           \/ /\ Fail(c, l, Notef(Newf("rename: permission denied"),
                                  "cannot move the entity archive"))
              /\ UNCHANGED files
    /\ UNCHANGED <<storeVars, CacheDir, dirs, before, tmpSeq>>

ArchivePathStep(c) ==
    \/ MkdirAll(c)
    \/ GetArchive(c)
    \/ VerifyOpen(c)
    \/ VerifyRead(c)
    \/ TempFile(c)
    \/ CopyByte(c)
    \/ CopyEOF(c)
    \/ CopyErr(c)
    \/ Check(c)
    \/ Close(c)
    \/ Replace(c)

\* The errors csclient.Meta and csclient.Get return.
ClientErrors ==
    {[msg |-> "no matching charm or bundle", cause |-> ErrNotFound],
     [msg |-> "cannot get: connection refused", cause |-> "self"]}

\* The error Resolve returns when Meta fails.
ResolveFailure(e, ref) ==
    IF Cause(e) = ErrNotFound
    THEN WithCausef(ErrNotFound,
            CASE ref.series = "bundle" -> "cannot resolve URL: bundle not found"
              [] ref.series = "" -> "cannot resolve URL: charm or bundle not found"
              [] OTHER -> "cannot resolve URL: charm not found")
    ELSE NoteMaskAny(e, "cannot resolve charm URL")

\* CharmStore.Resolve: the id the store's metadata gives for the reference.
CharmStoreResolve(c, ref) ==
    /\ pc[c] = "idle"
    /\ pc' = [pc EXCEPT ![c] = "done"]
    /\ loc' = [loc EXCEPT ![c] =
                [NoLoc EXCEPT !.op = "Resolve", !.curl = ref, !.requests = 1]]
    /\ \/ \E e \in ClientErrors :
            result' = [result EXCEPT ![c] = ReturnErr(ResolveFailure(e, ref))]
       \/ result' = [result EXCEPT ![c] = ReturnURL(EntityId(ref))]
    /\ UNCHANGED <<storeVars, CacheDir, dirs, files, before, tmpSeq>>

\* Mutant: the revision is left in the string.
LatestKeyWithRevision(curl) == String(curl)

\* The string a reference is looked up under: curl.WithRevision(-1).String()
LatestKey(curl) == String(WithRevision(curl, -1))

\* What the store may report for an entity: id-revision and hash256.
MetaAny == {[Revision |-> 1, Sum |-> "1f"], [Revision |-> 2, Sum |-> "2e"]}

\* The bodies the store may answer a /meta/any request with.
MetaResponses(urls) ==
    UNION {[K -> MetaAny] : K \in SUBSET {urls[i] : i \in 1..Len(urls)}}

\* CharmNotFound(url)
CharmNotFound(url) == WithCausef(ErrNotFound, "charm not found")

NoRevision == [Revision |-> 0, Sha256 |-> "", Err |-> NoErr]

\* One slot of Latest's answer.
CharmRevision(results, url) ==
    IF url \notin DOMAIN results
    THEN [NoRevision EXCEPT !.Err = CharmNotFound(url)]
    ELSE [NoRevision EXCEPT !.Revision = results[url].Revision,
                            !.Sha256 = results[url].Sum]

\* CharmStore.Latest
Latest(c, curls) ==
    /\ pc[c] = "idle"
    /\ pc' = [pc EXCEPT ![c] = "done"]
    /\ LET l == [NoLoc EXCEPT !.op = "Latest", !.curls = curls]
           urls == [i \in 1..Len(curls) |-> LatestKey(curls[i])]
       IN  IF Len(curls) = 0
           THEN /\ loc' = [loc EXCEPT ![c] = l]
                /\ result' = [result EXCEPT ![c] = ReturnRevs(<<>>)]
           ELSE \/ \E e \in ClientErrors :
                     /\ loc' = [loc EXCEPT ![c] = [l EXCEPT !.requests = 1]]
                     /\ result' = [result EXCEPT ![c] = ReturnErr(
                            NoteMaskAny(e, "cannot get metadata from the charm store"))]
                \/ \E results \in MetaResponses(urls) :
                     /\ loc' = [loc EXCEPT ![c] =
                                  [l EXCEPT !.requests = 1, !.response = results]]
                     /\ result' = [result EXCEPT ![c] = ReturnRevs(
                            [i \in 1..Len(curls) |-> CharmRevision(results, urls[i])])]
    /\ UNCHANGED <<storeVars, CacheDir, dirs, files, before, tmpSeq>>

\* ------------------------------------------------------------ With...
\* NewCharmStore: a repository with a client of its own.
NewCharmStore ==
    /\ Len(repos) < MaxRepos
    /\ clients' = Append(clients, NewClient)
    /\ repos' = Append(repos, [client |-> Len(clients) + 1])
    /\ UNCHANGED <<sent, callVars>>

\* newRepo := *s, which WithTestMode and WithJujuAttrs start with and whose
\* address they return: a copy of the struct, whose field client is the
\* same pointer.
CopyOf(s) == [client |-> repos[s].client]

\* csclient.Client.DisableStats, called on the client at k
DisableStats(k) == [clients EXCEPT ![k].statsDisabled = TRUE]

\* csclient.Client.SetHTTPHeader, called on the client at k
SetHTTPHeader(k, header) == [clients EXCEPT ![k].header = header]

\* CharmStore.WithTestMode on the repository s
WithTestMode(s) ==
    /\ Len(repos) < MaxRepos
    /\ LET newRepo == CopyOf(s)
       IN  /\ clients' = DisableStats(newRepo.client)
           /\ repos' = Append(repos, newRepo)
    /\ UNCHANGED <<sent, callVars>>

\* CharmStore.WithJujuAttrs on the repository s
WithJujuAttrs(s, attrs) ==
    /\ Len(repos) < MaxRepos
    /\ LET newRepo == CopyOf(s)
       IN  \E header \in JujuMetadataHeaders(attrs) :
              /\ clients' = SetHTTPHeader(newRepo.client, header)
              /\ repos' = Append(repos, newRepo)
    /\ UNCHANGED <<sent, callVars>>

\* The Juju-Metadata header values a request of s.client carries.
RequestHeader(s) == clients[repos[s].client].header

\* The stats parameter a request of s.client carries: "0" when the stats
\* are disabled.
RequestStats(s) == IF clients[repos[s].client].statsDisabled THEN <<"0">> ELSE <<>>

\* A request the repository s makes through s.client (GetArchive, Meta, Get).
Request(s) ==
    /\ sent' = [repo |-> s, header |-> RequestHeader(s), stats |-> RequestStats(s)]
    /\ UNCHANGED <<repos, clients, callVars>>

\* Repositories made from one another, and the requests made through them.
StoreNext ==
    \/ NewCharmStore
    \/ \E s \in DOMAIN repos : WithTestMode(s)
    \/ \E s \in DOMAIN repos, attrs \in AttrMaps : WithJujuAttrs(s, attrs)
    \/ \E s \in DOMAIN repos : Request(s)

StoreSpec == Init /\ [][StoreNext]_vars

\* ------------------------------------------------------------ GitRepo
\* The name ioutil.TempDir("", "juju-clone") picks: a fresh one.
TempDirName(n) == <<"/tmp", "/", "juju-clone">> \o Itoa(n)

\* The reference the working tree of git.PlainClone is checked out at: the
\* clone options name none, so it is the remote's HEAD.
ClonedReference(g) == <<"H", "E", "A", "D">>

\* GitRepo.archivePath: its outcomes, with the clones made and the scratch
\* directories created.
GitArchivePath(g, n) ==
    {[err |-> MaskAny(Newf("mkdir /tmp: no space left on device")),
      path |-> <<>>, tree |-> <<>>, clones |-> 0, tempdirs |-> 0],
     [err |-> MaskAny(Newf("repository not found")),
      path |-> <<>>, tree |-> <<>>, clones |-> 1, tempdirs |-> 1],
     [err |-> NoErr,
      path |-> TempDirName(n), tree |-> ClonedReference(g), clones |-> 1, tempdirs |-> 1]}

\* GitRepo.Get: its outcomes.
GitGet(g, checkout, n) ==
    IF checkout.series = "bundle"
    THEN {[err |-> Newf("expected a charm URL, got bundle URL"),
           path |-> <<>>, charm |-> NoCharm, clones |-> 0, tempdirs |-> 0]}
    ELSE UNION {
           IF a.err # NoErr
           THEN {[err |-> MaskAny(a.err),
                  path |-> <<>>, charm |-> NoCharm,
                  clones |-> a.clones, tempdirs |-> a.tempdirs]}
           ELSE \* charm.ReadCharmDir(path)
                {[err |-> Newf("metadata.yaml: no such file"),
                  path |-> a.path, charm |-> NoCharm,
                  clones |-> a.clones, tempdirs |-> a.tempdirs]}
                \cup
                {[err |-> NoErr, path |-> a.path,
                  charm |-> [revision |-> ch.revision, series |-> ch.series,
                             tree |-> a.tree],
                  clones |-> a.clones, tempdirs |-> a.tempdirs] : ch \in CharmsOnDisk}
           : a \in GitArchivePath(g, n)}

\* GitRepo.GetBundle: its outcomes (charm.ReadBundleArchive reads the tree).
GitGetBundle(g, checkout, n) ==
    IF checkout.series # "bundle"
    THEN {[err |-> Newf("expected a bundle URL, got charm URL"),
           path |-> <<>>, charm |-> NoCharm, clones |-> 0, tempdirs |-> 0]}
    ELSE UNION {
           IF a.err # NoErr
           THEN {[err |-> MaskAny(a.err),
                  path |-> <<>>, charm |-> NoCharm,
                  clones |-> a.clones, tempdirs |-> a.tempdirs]}
           ELSE {[err |-> Newf("cannot read bundle archive"),
                  path |-> a.path, charm |-> NoCharm,
                  clones |-> a.clones, tempdirs |-> a.tempdirs],
                 [err |-> NoErr, path |-> a.path,
                  charm |-> [NoCharm EXCEPT !.tree = a.tree],
                  clones |-> a.clones, tempdirs |-> a.tempdirs]}
           : a \in GitArchivePath(g, n)}

\* The effect of a GitRepo call with outcome o, returning r.
GitReturn(c, op, g, checkout, o, r) ==
    /\ pc' = [pc EXCEPT ![c] = "done"]
    /\ loc' = [loc EXCEPT ![c] =
                [NoLoc EXCEPT !.op = op, !.curl = checkout, !.g = g,
                              !.clones = o.clones, !.tempdirs = o.tempdirs,
                              !.ch = o.charm]]
    /\ dirs' = dirs \cup (IF o.tempdirs > 0 THEN {TempDirName(tmpSeq)} ELSE {})
    /\ tmpSeq' = tmpSeq + o.tempdirs
    /\ result' = [result EXCEPT ![c] = r]
    /\ UNCHANGED <<storeVars, CacheDir, files, before>>

GitRepoGet(c, name, checkout) ==
    /\ pc[c] = "idle"
    /\ LET g == NewGitRepo(name)
       IN  \E o \in GitGet(g, checkout, tmpSeq) :
              GitReturn(c, "GitGet", g, checkout, o,
                  IF o.err # NoErr THEN ReturnErr(o.err)
                  ELSE ReturnCharm(o.path, o.charm))

GitRepoGetBundle(c, name, checkout) ==
    /\ pc[c] = "idle"
    /\ LET g == NewGitRepo(name)
       IN  \E o \in GitGetBundle(g, checkout, tmpSeq) :
              GitReturn(c, "GitGetBundle", g, checkout, o,
                  IF o.err # NoErr THEN ReturnErr(o.err)
                  ELSE ReturnCharm(o.path, o.charm))

\* Mutant: every series is accepted.
SeriesForCharmAny(requested, supported) == NoErr

\* charm.SeriesForCharm(requestedSeries, supportedSeries): its error
SeriesForCharm(requested, supported) ==
    IF Len(supported) = 0
    THEN IF requested = "" THEN Newf("series not specified") ELSE NoErr
    ELSE IF requested = "" THEN NoErr
    ELSE IF \E i \in 1..Len(supported) : supported[i] = requested THEN NoErr
    ELSE Newf("series not supported by charm")

\* Mutant: the series is only looked at when the revision is unset.
NoSeriesUnpinned(checkout) == checkout.series = "" /\ checkout.rev = -1

\* Resolve's first test: the reference names no series.
NoSeries(checkout) == checkout.series = ""

\* Mutant: the bundle reference is returned with its revision still unset.
BundleRevisionUnset(checkout) == checkout

\* Bundles carry no revision: Resolve gives them revision 0.
BundleRevision(checkout) == WithRevision(checkout, 0)

\* Mutant: revision 0 is taken for an unset revision.
IsPinnedPositive(checkout) == checkout.rev > 0

IsPinned(checkout) == checkout.rev # -1

NoOutcome ==
    [err |-> NoErr, path |-> <<>>, charm |-> NoCharm, clones |-> 0, tempdirs |-> 0]

\* GitRepo.Resolve
GitRepoResolve(c, name, checkout) ==
    /\ pc[c] = "idle"
    /\ LET g == NewGitRepo(name)
       IN  IF NoSeries(checkout)
           THEN GitReturn(c, "GitResolve", g, checkout, NoOutcome,
                    ReturnErr(Newf("no series specified")))
           ELSE IF IsPinned(checkout)
           THEN GitReturn(c, "GitResolve", g, checkout, NoOutcome, ReturnURL(checkout))
           ELSE IF checkout.series = "bundle"
           THEN GitReturn(c, "GitResolve", g, checkout, NoOutcome,
                    ReturnURL(BundleRevision(checkout)))
           ELSE \E o \in GitGet(g, checkout, tmpSeq) :
                  GitReturn(c, "GitResolve", g, checkout, o,
                      IF o.err # NoErr THEN ReturnErr(o.err)
                      ELSE IF SeriesForCharm(checkout.series, o.charm.series) # NoErr
                      THEN ReturnErr(SeriesForCharm(checkout.series, o.charm.series))
                      ELSE ReturnURL(WithRevision(checkout, o.charm.revision)))

\* ------------------------------------------------------------ one caller
RECURSIVE SeqsUpTo(_, _)
SeqsUpTo(S, n) ==
    IF n = 0 THEN {<<>>}
    ELSE LET shorter == SeqsUpTo(S, n - 1)
         IN  shorter \cup {Append(q, x) : q \in shorter, x \in S}

\* The references Latest is called with: one of each series with a revision,
\* and one without a revision.
LatestURLs == {u \in URLs : u.rev = 1 \/ (u.rev = -1 /\ u.series = "trusty")}

\* The caller of RepoSpec.
RepoCalls == {CHOOSE c \in Calls : \A d \in Calls : c <= d}

\* One caller making one call of any method of either backend.
RepoNext ==
    \E c \in RepoCalls :
        \/ \E curl \in URLs : CharmStoreGet(c, curl)
        \/ \E curl \in URLs : CharmStoreGetBundle(c, curl)
        \/ ArchivePathStep(c)
        \/ \E ref \in URLs : CharmStoreResolve(c, ref)
        \/ \E curls \in SeqsUpTo(LatestURLs, MaxRefs) : Latest(c, curls)
        \/ \E name \in GitNames, checkout \in URLs : GitRepoGet(c, name, checkout)
        \/ \E name \in GitNames, checkout \in URLs : GitRepoGetBundle(c, name, checkout)
        \/ \E name \in GitNames, checkout \in URLs : GitRepoResolve(c, name, checkout)

RepoSpec == Init /\ [][RepoNext]_vars


\* Concurrent Get and GetBundle calls on the charm store.
Next ==
    \E c \in Calls :
        \/ \E curl \in SpecURLs : CharmStoreGet(c, curl)
        \/ \E curl \in SpecURLs : CharmStoreGetBundle(c, curl)
        \/ ArchivePathStep(c)

Spec == Init /\ [][Next]_vars

\* The call whose steps are scheduled fairly; the other calls may stop
\* anywhere, or never start.
FairCalls == {CHOOSE c \in Calls : \A d \in Calls : c <= d}

\* Concurrent calls where one call's thread keeps running: archivePath takes
\* no lock and starts no other thread, so the thread's next statement is
\* executed whenever it can be; io.Copy ends since the response is finite.
FairSpec == Spec /\ \A c \in FairCalls : WF_vars(ArchivePathStep(c))

\* ------------------------------------------------------------ properties
\* The canonical cache paths, and the archive the store holds for each.
CanonicalPaths == {CanonicalPath(CacheDir, EntityId(u), EtypeOf(u)) : u \in URLs}

ArchiveAt(p) ==
    Archive(EntityId(CHOOSE u \in URLs :
                CanonicalPath(CacheDir, EntityId(u), EtypeOf(u)) = p))

IsStoreCall(c) == loc[c].op \in {"Get", "GetBundle"}

Returned(c) == pc[c] = "done"

ReturnedPath(c) == Returned(c) /\ result[c].kind = "value"

Alone(c) == \A d \in Calls \ {c} : pc[d] = "idle"

UnchangedSinceStart == files = before.files /\ dirs = before.dirs

\* C1: with concurrent archivePath calls on one cache directory, the file at
\* a canonical path is always absent, or the complete file that was there at
\* the start, or a complete file some call wrote, verified and renamed there;
\* and once a call has returned a path, the valid archive is at that path and
\* the call's temporary file is gone.
C1_AtomicPublish ==
    /\ \A p \in CanonicalPaths :
          Exists(p) =>
             \/ p \in DOMAIN before.files /\ files[p] = before.files[p]
             \/ /\ files[p] = ArchiveAt(p)
                /\ \E c \in Calls :
                      /\ loc[c].path = p
                      /\ loc[c].renames = 1
                      /\ loc[c].size = Len(files[p])
                      /\ loc[c].hash = Sum384(files[p])
    /\ \A c \in Calls :
          ReturnedPath(c) /\ IsStoreCall(c) =>
             /\ result[c].path \in CanonicalPaths
             /\ Exists(result[c].path)
             /\ files[result[c].path] = Archive(loc[c].id)
             /\ loc[c].temps = 1 => ~Exists(loc[c].fname)

\* C1's case: two calls for the same entity raced, each downloaded, and each
\* renamed its own file to the canonical path.
C1_Witness ==
    \E c, d \in Calls :
        /\ c # d
        /\ ReturnedPath(c) /\ ReturnedPath(d)
        /\ result[c].path = result[d].path
        /\ loc[c].renames = 1 /\ loc[d].renames = 1

\* C2: the temporary file is renamed only when the bytes copied have the
\* expected size and hash; when the response ended with another size the call
\* fails with the size mismatch, with the right size and another hash with
\* the hash mismatch, and in both cases it has renamed nothing: with no
\* other call running the cache's canonical paths are as at the start.
C2_VerifyBeforePromote ==
    \A c \in Calls :
        /\ (pc[c] \in {"Close", "ReplaceFile"} \/ loc[c].renames > 0) =>
              /\ loc[c].size = Len(Archive(loc[c].id))
              /\ loc[c].hash = Sum384(Archive(loc[c].id))
              /\ loc[c].renames = 0 => files[loc[c].fname] = Archive(loc[c].id)
        /\ ( /\ Returned(c)
             /\ loc[c].temps = 1
             /\ result[c].err.msg # "cannot read entity archive" ) =>
              /\ loc[c].size # Len(Archive(loc[c].id)) =>
                    /\ result[c].kind = "error"
                    /\ result[c].err.msg = "size mismatch; network corruption?"
              /\ ( /\ loc[c].size = Len(Archive(loc[c].id))
                   /\ loc[c].hash # Sum384(Archive(loc[c].id)) ) =>
                    /\ result[c].kind = "error"
                    /\ result[c].err.msg = "hash mismatch; network corruption?"
              /\ result[c].kind = "error" /\ result[c].err.msg # "cannot move the entity archive" =>
                    /\ loc[c].renames = 0
                    /\ Alone(c) =>
                          \A p \in CanonicalPaths :
                              /\ Exists(p) <=> p \in DOMAIN before.files
                              /\ Exists(p) => files[p] = before.files[p]

\* C2's case: a download with the right size and the wrong bytes has failed
\* with the hash mismatch while the canonical path still holds its old file.
C2_Witness ==
    \E c \in Calls :
        /\ Returned(c)
        /\ result[c].err.msg = "hash mismatch; network corruption?"
        /\ loc[c].path \in DOMAIN before.files
        /\ Exists(loc[c].path)
        /\ files[loc[c].path] = before.files[loc[c].path]

\* C3 (as claimed): after a call has failed with a size mismatch, a hash
\* mismatch or a read error, its temporary file is gone from the cache
\* directory.
C3_TempDiscarded ==
    \A c \in Calls :
        ( /\ Returned(c)
          /\ result[c].err.msg \in {"size mismatch; network corruption?",
                                    "hash mismatch; network corruption?",
                                    "cannot read entity archive"} ) =>
            ~Exists(loc[c].fname)

\* What verifyHash384AndSize found at the canonical path: the expected
\* archive, read without an error.
FoundCached(c) ==
    /\ loc[c].vf = "closed"
    /\ ~loc[c].vioerr
    /\ loc[c].vdata = Archive(loc[c].id)

PastVerify(c) ==
    pc[c] \in {"TempFile", "Copy", "Check", "Close", "ReplaceFile"}
    \/ (Returned(c) /\ loc[c].r = "closed")

\* C4: when the file at the canonical path has the expected size and hash,
\* the call returns that path and has created no temporary file, renamed
\* nothing and copied no byte of the response, and with no other call
\* running the cache directory is as at the start; and a call that comes to
\* look at the cache after a call for the same entity has returned its path
\* finds the archive there, under that same path.
C4_CacheHit ==
    \A c \in Calls :
        /\ FoundCached(c) =>
              /\ ReturnedPath(c)
              /\ result[c].path = loc[c].path
              /\ loc[c].temps = 0 /\ loc[c].renames = 0 /\ loc[c].copied = 0
              /\ loc[c].fname = <<>>
              /\ Alone(c) => UnchangedSinceStart
        /\ \A d \in Calls \ {c} :
              ( /\ pc[c] = "verifyOpen"
                /\ ReturnedPath(d) /\ IsStoreCall(d)
                /\ loc[d].id = loc[c].id /\ loc[d].etype = loc[c].etype ) =>
                 /\ loc[c].path = result[d].path
                 /\ Exists(loc[c].path)
                 /\ files[loc[c].path] = Archive(loc[c].id)

\* C4's case: a call has returned the path of an archive it downloaded, and
\* a later call for the same entity found it in the cache and returned the
\* same path without a download.
C4_Witness ==
    \E c, d \in Calls :
        /\ c # d
        /\ ReturnedPath(d) /\ loc[d].renames = 1
        /\ ReturnedPath(c) /\ FoundCached(c) /\ loc[c].temps = 0
        /\ result[c].path = result[d].path
        /\ loc[c].path \notin DOMAIN before.files

\* C5: a canonical file that is missing, unreadable or of another size or
\* hash is never returned as a hit: the call goes on to download, and a call
\* that has returned a path either found the expected archive there or
\* renamed a download of the expected archive to it.
C5_NoStaleHit ==
    \A c \in Calls :
        /\ (PastVerify(c) /\ ~FoundCached(c)) =>
              /\ ReturnedPath(c) => loc[c].renames = 1
              /\ Returned(c) =>
                    \/ loc[c].temps = 1
                    \/ result[c].err.msg = "cannot make temporary file"
        /\ (ReturnedPath(c) /\ IsStoreCall(c)) =>
              \/ FoundCached(c) /\ loc[c].renames = 0
              \/ /\ loc[c].renames = 1
                 /\ loc[c].size = Len(Archive(loc[c].id))
                 /\ loc[c].hash = Sum384(Archive(loc[c].id))
                 /\ files[result[c].path] = Archive(loc[c].id)

\* C5's case: the cache held a stale entry, and the call has replaced it by a
\* download of the expected archive.
C5_Witness ==
    \E c \in Calls :
        /\ ReturnedPath(c)
        /\ loc[c].renames = 1
        /\ loc[c].vf = "closed" /\ loc[c].vdata # Archive(loc[c].id)
        /\ loc[c].path \in DOMAIN before.files
        /\ files[loc[c].path] # before.files[loc[c].path]

\* ------------------------------------------------------------ Get, Resolve, Latest
TypeMismatchMessages ==
    {"expected a charm URL, got bundle URL", "expected a bundle URL, got charm URL"}

\* A Get with a bundle URL or a GetBundle with a charm URL.
WrongType(c) ==
    \/ loc[c].op \in {"Get", "GitGet"} /\ loc[c].curl.series = "bundle"
    \/ loc[c].op \in {"GetBundle", "GitGetBundle"} /\ loc[c].curl.series # "bundle"

NoEffects(c) ==
    /\ loc[c].requests = 0 /\ loc[c].clones = 0 /\ loc[c].tempdirs = 0
    /\ loc[c].mkdirs = 0 /\ loc[c].temps = 0 /\ loc[c].renames = 0
    /\ loc[c].copied = 0
    /\ Alone(c) => UnchangedSinceStart

\* C6 (as claimed): in both backends a Get with a bundle URL and a GetBundle
\* with a charm URL return the type-mismatch error, before any request,
\* clone, directory creation or file write.
C6_TypeMismatch ==
    \A c \in Calls :
        WrongType(c) =>
            /\ Returned(c)
            /\ result[c].kind = "error"
            /\ result[c].err.msg \in TypeMismatchMessages
            /\ NoEffects(c)

\* C6 (amended): the same, except that the charm store's Get and GetBundle
\* panic instead while the cache directory is unset; the panic too comes
\* before any request, directory creation or file write.
C6_TypeMismatchWhenConfigured ==
    \A c \in Calls :
        WrongType(c) =>
            /\ Returned(c)
            /\ NoEffects(c)
            /\ IF IsStoreCall(c) /\ CacheDir = ""
               THEN result[c].kind = "panic"
               ELSE /\ result[c].kind = "error"
                    /\ result[c].err.msg =
                          (IF loc[c].curl.series = "bundle"
                           THEN "expected a charm URL, got bundle URL"
                           ELSE "expected a bundle URL, got charm URL")
                    /\ Cause(result[c].err) = result[c].err.msg

\* C6's case: the charm store's GetBundle, with the cache directory set, has
\* refused a charm URL.
C6_Witness ==
    \E c \in Calls :
        /\ Returned(c) /\ WrongType(c)
        /\ loc[c].op = "GetBundle" /\ CacheDir # ""
        /\ result[c].err.msg = "expected a bundle URL, got charm URL"

\* C7 (as claimed): in both backends Resolve of a reference with a revision
\* returns the reference unchanged and makes no request and no clone.
C7_ResolvePinnedIsNoOp ==
    \A c \in Calls :
        ( /\ Returned(c)
          /\ loc[c].op \in {"Resolve", "GitResolve"}
          /\ loc[c].curl.rev # -1 ) =>
            /\ result[c] = ReturnURL(loc[c].curl)
            /\ loc[c].requests = 0
            /\ loc[c].clones = 0

\* C7 (amended): the git backend's Resolve of a reference with a revision and
\* a series returns the reference unchanged and makes no clone (without a
\* series it fails, and makes no clone either); the charm store's Resolve
\* makes one metadata request whatever the revision is, and returns the id
\* the store reports or the request's error.
C7_GitResolvePinnedIsNoOp ==
    \A c \in Calls :
        /\ ( /\ Returned(c)
             /\ loc[c].op = "GitResolve"
             /\ loc[c].curl.rev # -1 ) =>
              /\ loc[c].clones = 0 /\ loc[c].tempdirs = 0 /\ loc[c].requests = 0
              /\ Alone(c) => UnchangedSinceStart
              /\ IF loc[c].curl.series = ""
                 THEN result[c].kind = "error"
                 ELSE result[c] = ReturnURL(loc[c].curl)
        /\ (Returned(c) /\ loc[c].op = "Resolve") =>
              /\ loc[c].requests = 1
              /\ loc[c].clones = 0
              /\ result[c].kind = "value" => result[c].url = EntityId(loc[c].curl)

\* C7's case: the git backend has resolved a charm reference of revision 0 to
\* itself.
C7_Witness ==
    \E c \in Calls :
        /\ Returned(c)
        /\ loc[c].op = "GitResolve"
        /\ loc[c].curl.rev = 0 /\ loc[c].curl.series = "trusty"
        /\ result[c].url = loc[c].curl

\* C8: Latest answers with one slot per reference, in order: the revision
\* and hash the response holds under the reference's string without its
\* revision, or a not-found error when the response holds nothing under it;
\* for no references it answers with nothing and makes no request, and
\* otherwise it makes one request.
C8_LatestAligned ==
    \A c \in Calls :
        (Returned(c) /\ loc[c].op = "Latest") =>
            LET curls == loc[c].curls
                revs == result[c].revs
                key(i) == String([curls[i] EXCEPT !.rev = -1])
            IN  /\ Len(curls) = 0 =>
                      /\ result[c].kind = "value"
                      /\ revs = <<>>
                      /\ loc[c].requests = 0
                /\ Len(curls) > 0 => loc[c].requests = 1
                /\ result[c].kind = "value" =>
                      /\ Len(revs) = Len(curls)
                      /\ \A i \in 1..Len(curls) :
                            IF key(i) \in DOMAIN loc[c].response
                            THEN /\ revs[i].Revision = loc[c].response[key(i)].Revision
                                 /\ revs[i].Sha256 = loc[c].response[key(i)].Sum
                                 /\ revs[i].Err = NoErr
                            ELSE /\ revs[i].Err # NoErr
                                 /\ Cause(revs[i].Err) = ErrNotFound

\* C8's case: of three references with revisions the second is missing from
\* the response, and the first and the third are in it.
C8_Witness ==
    \E c \in Calls :
        /\ Returned(c) /\ loc[c].op = "Latest"
        /\ result[c].kind = "value"
        /\ Len(loc[c].curls) = 3
        /\ \A i \in 1..3 : loc[c].curls[i].rev # -1
        /\ result[c].revs[1].Err = NoErr
        /\ Cause(result[c].revs[2].Err) = ErrNotFound
        /\ result[c].revs[3].Err = NoErr

\* C9: with the cache directory unset, the charm store's Get and GetBundle
\* panic at once for every reference: no request is made, no directory is
\* created and no file is written.
C9_UnsetCacheDirPanics ==
    \A c \in Calls :
        (CacheDir = "" /\ IsStoreCall(c)) =>
            /\ Returned(c)
            /\ result[c].kind = "panic"
            /\ result[c].err.msg = "charm cache directory path is empty"
            /\ NoEffects(c)
            /\ dirs = {} /\ files = <<>>

\* C9's case: a Get of a charm reference has panicked.
C9_Witness ==
    \E c \in Calls :
        /\ CacheDir = ""
        /\ loc[c].op = "Get" /\ loc[c].curl.series = "trusty"
        /\ result[c].kind = "panic"

\* C10: when GetArchive fails, the call has made that one request only, has
\* created no temporary file and renamed nothing, and Get or GetBundle
\* return an error with the cause of GetArchive's error: params.ErrNotFound
\* when the store has no such entity.
C10_FetchFailureSurfaced ==
    \A c \in Calls :
        loc[c].fetchErr # NoErr =>
            /\ Returned(c)
            /\ result[c].kind = "error"
            /\ Cause(result[c].err) = Cause(loc[c].fetchErr)
            /\ loc[c].requests = 1
            /\ loc[c].temps = 0 /\ loc[c].renames = 0 /\ loc[c].copied = 0
            /\ loc[c].r = "none" /\ loc[c].path = <<>>
            /\ Alone(c) => files = before.files

\* C10's case: the store had no such entity, and Get has returned an error
\* whose cause is params.ErrNotFound.
C10_Witness ==
    \E c \in Calls :
        /\ Returned(c)
        /\ Cause(loc[c].fetchErr) = ErrNotFound
        /\ Cause(result[c].err) = ErrNotFound
        /\ result[c].err.msg = "cannot retrieve: not found"

\* C11: whenever a call of archivePath renames its temporary file to the
\* canonical path, the file's handle was closed before that step, and the
\* size and the hash of what was copied had been found equal to the expected
\* ones; a call is at the rename only with the handle closed.
C11_CloseBeforeRename ==
    [][\A c \in Calls :
        (pc[c] = "ReplaceFile" \/ loc'[c].renames > loc[c].renames) =>
            /\ pc[c] = "ReplaceFile"
            /\ loc[c].f = "closed"
            /\ loc[c].size = loc[c].expectSize
            /\ Sprintfx(loc[c].hash) = loc[c].expectHash]_vars

\* C11's case: a call has renamed its temporary file to the canonical path
\* and returned it.
C11_Witness ==
    \E c \in Calls :
        /\ ReturnedPath(c)
        /\ loc[c].renames = 1
        /\ loc[c].f = "closed"
        /\ Exists(loc[c].path) /\ ~Exists(loc[c].fname)

\* C12: when a call of Get or GetBundle has returned, the response it
\* fetched, the temporary file it created and the cache file it opened to
\* verify are closed, whichever way archivePath returned; none of them is
\* left open, and each one the call opened is closed.
C12_HandlesReleased ==
    \A c \in Calls :
        (IsStoreCall(c) /\ Returned(c)) =>
            /\ loc[c].r \in {"none", "closed"}
            /\ loc[c].f \in {"none", "closed"}
            /\ loc[c].vf \in {"none", "closed"}
            /\ (loc[c].requests = 1 /\ loc[c].fetchErr = NoErr) => loc[c].r = "closed"
            /\ loc[c].temps = 1 => loc[c].f = "closed"

\* C12's case: one call has returned a hash mismatch after it fetched the
\* response and created its temporary file, another has returned the path of
\* a cache entry it opened and verified, and all their handles are closed.
C12_Witness ==
    \E c, d \in Calls :
        /\ IsStoreCall(c) /\ Returned(c)
        /\ result[c].kind = "error"
        /\ result[c].err.msg = "hash mismatch; network corruption?"
        /\ loc[c].r = "closed" /\ loc[c].f = "closed"
        /\ IsStoreCall(d) /\ ReturnedPath(d)
        /\ loc[d].temps = 0
        /\ loc[d].r = "closed" /\ loc[d].vf = "closed" /\ loc[d].f = "none"

\* C13: the GitRepo made for a name takes its reference from the text after
\* the first "?" of the name (HEAD when there is none), and the working tree
\* a successful Get or GetBundle read the charm or bundle from is checked
\* out at that reference.
C13_ReadAtReference ==
    \A c \in Calls :
        (loc[c].op \in {"GitGet", "GitGetBundle"} /\ ReturnedPath(c)) =>
            /\ \E name \in GitNames :
                  /\ loc[c].g = NewGitRepo(name)
                  /\ loc[c].g.reference =
                        (IF Len(Split(name, "?")) > 1 THEN Split(name, "?")[2]
                         ELSE <<"H", "E", "A", "D">>)
            /\ result[c].charm.tree = loc[c].g.reference

\* C14: GitRepo.Resolve of a reference with series "bundle" and revision -1
\* returns that reference with revision 0 and nothing else changed, makes no
\* scratch directory and no clone, and leaves the reference it was given as
\* it was.
C14_ResolveBundle ==
    \A c \in Calls :
        (/\ loc[c].op = "GitResolve" /\ Returned(c)
         /\ loc[c].curl.series = "bundle" /\ loc[c].curl.rev = -1) =>
            /\ result[c].kind = "value"
            /\ result[c].url.rev = 0
            /\ result[c].url.name = loc[c].curl.name
            /\ result[c].url.series = "bundle"
            /\ loc[c].clones = 0 /\ loc[c].tempdirs = 0
            /\ dirs = before.dirs /\ files = before.files

\* C14's case: Resolve has returned for a bundle reference without revision.
C14_Witness ==
    \E c \in Calls :
        /\ loc[c].op = "GitResolve" /\ Returned(c)
        /\ loc[c].curl = [name |-> "wordpress", series |-> "bundle", rev |-> -1]
        /\ result[c].url = [name |-> "wordpress", series |-> "bundle", rev |-> 0]

\* C15: GitRepo.Resolve of a reference with an empty series returns the
\* error that no series is specified and no reference, whatever the
\* revision of the reference is, and makes no scratch directory and no
\* clone.
C15_ResolveNoSeries ==
    \A c \in Calls :
        (loc[c].op = "GitResolve" /\ Returned(c) /\ loc[c].curl.series = "") =>
            /\ result[c].kind = "error"
            /\ result[c].err.msg = "no series specified"
            /\ result[c].url = NoURL
            /\ loc[c].clones = 0 /\ loc[c].tempdirs = 0
            /\ dirs = before.dirs /\ files = before.files

\* C15's case: Resolve has failed for a reference with a revision and no
\* series.
C15_Witness ==
    \E c \in Calls :
        /\ loc[c].op = "GitResolve" /\ Returned(c)
        /\ loc[c].curl.series = "" /\ loc[c].curl.rev = 1
        /\ result[c].kind = "error"
        /\ result[c].err.msg = "no series specified"

\* GitRepo.Resolve has returned for a charm reference without revision.
ResolvedCharm(c) ==
    /\ loc[c].op = "GitResolve" /\ Returned(c)
    /\ loc[c].curl.series \notin {"", "bundle"} /\ loc[c].curl.rev = -1

\* The charm's metadata supports the series: it is among the declared ones,
\* or the metadata declares none.
Supports(ch, series) ==
    \/ Len(ch.series) = 0
    \/ \E i \in 1..Len(ch.series) : ch.series[i] = series

\* What Resolve returns once the clone was attempted: the reference with the
\* charm's revision, the unsupported-series error, or the error of the clone
\* or of reading the charm.
ResolvedAfterClone(c) ==
    /\ loc[c].clones = 1 /\ loc[c].tempdirs = 1
    /\ \/ /\ result[c].kind = "value"
          /\ loc[c].ch # NoCharm
          /\ Supports(loc[c].ch, loc[c].curl.series)
          /\ result[c].url = [loc[c].curl EXCEPT !.rev = loc[c].ch.revision]
       \/ /\ result[c].kind = "error"
          /\ loc[c].ch # NoCharm
          /\ ~Supports(loc[c].ch, loc[c].curl.series)
          /\ result[c].err.msg = "series not supported by charm"
          /\ result[c].url = NoURL
       \/ /\ result[c].kind = "error"
          /\ loc[c].ch = NoCharm
          /\ result[c].err.msg \in {"repository not found", "metadata.yaml: no such file"}
          /\ result[c].url = NoURL

\* C16 as stated: GitRepo.Resolve of a charm reference without revision makes
\* exactly one clone, and returns the reference with the revision of the
\* cloned charm when the charm supports the series, the unsupported-series
\* error otherwise, and the error of a failed clone or read.
C16_ResolveCharmOneClone ==
    \A c \in Calls : ResolvedCharm(c) => ResolvedAfterClone(c)

\* C16, amended: the same, except that when the scratch directory cannot be
\* made Resolve returns that error with no reference and without a clone; so
\* it makes at most one clone.
C16_ResolveCharm ==
    \A c \in Calls :
        ResolvedCharm(c) =>
            \/ ResolvedAfterClone(c)
            \/ /\ loc[c].clones = 0 /\ loc[c].tempdirs = 0
               /\ result[c].kind = "error"
               /\ result[c].err.msg = "mkdir /tmp: no space left on device"
               /\ result[c].url = NoURL

\* C16's case: Resolve has cloned a charm of revision 2 that supports the
\* series and returned the reference with revision 2.
C16_Witness ==
    \E c \in Calls :
        /\ ResolvedCharm(c)
        /\ loc[c].clones = 1
        /\ loc[c].ch.series = <<"trusty">> /\ loc[c].curl.series = "trusty"
        /\ result[c].kind = "value"
        /\ result[c].url.rev = 2

\* The path is directly inside the cache directory.
InCacheDir(p) == Len(p) > 2 /\ p[1] = CacheDir /\ p[2] = "/"

\* The paths whose file is created, removed or rewritten by the step.
ChangedFiles ==
    {p \in DOMAIN files \cup DOMAIN files' :
        \/ (p \in DOMAIN files) # (p \in DOMAIN files')
        \/ (p \in DOMAIN files /\ p \in DOMAIN files' /\ files[p] # files'[p])}

\* C17: a call of archivePath creates at most one temporary file and makes
\* at most one rename; every step changes only the temporary file of the
\* call that takes it, or moves that file to the call's canonical path; both
\* are inside the cache directory; and the only directory a step creates is
\* the cache directory.
C17_Frame ==
    [][/\ \A c \in Calls : loc'[c].temps <= 1 /\ loc'[c].renames <= 1
       /\ \A c \in Calls :
            (loc'[c].fname # <<>> => InCacheDir(loc'[c].fname))
            /\ (loc'[c].path # <<>> => InCacheDir(loc'[c].path)
                                       /\ loc'[c].path \in CanonicalPaths)
       /\ \A p \in ChangedFiles :
            \E c \in Calls :
                /\ pc[c] # pc'[c] \/ loc[c] # loc'[c]
                /\ \/ p = loc'[c].fname /\ loc'[c].temps = 1
                   \/ p = loc'[c].path /\ loc'[c].renames = loc[c].renames + 1
       /\ dirs \subseteq dirs' /\ dirs' \subseteq dirs \cup {CacheDir}]_vars

\* C17's case: the only call made has created the cache directory, one
\* temporary file and renamed it to the canonical path, and the file system
\* differs from the one at the start in that directory and that file only.
C17_Witness ==
    \E c \in Calls :
        /\ Alone(c) /\ ReturnedPath(c)
        /\ loc[c].mkdirs = 1 /\ loc[c].temps = 1 /\ loc[c].renames = 1
        /\ dirs = before.dirs \cup {CacheDir} /\ CacheDir \notin before.dirs
        /\ files = WriteFile(before.files, loc[c].path, ArchiveAt(loc[c].path))

\* The call is inside archivePath.
Running(c) == pc[c] \notin {"idle", "done"}

\* C18: a call inside archivePath can always take its next step, whatever
\* the other calls are doing; so a call whose own steps are scheduled fairly
\* returns a path or an error, also when the other calls have stopped in the
\* middle of their download or have failed.
C18_LockFree ==
    /\ [](\A c \in Calls : Running(c) => ENABLED ArchivePathStep(c))
    /\ \A c \in FairCalls : Running(c) ~> (Returned(c) /\ result[c].kind \in {"value", "error"})

\* C18's case: a call has returned the path of the entity while another
\* call on the same path is still in the middle of its download.
C18_Witness ==
    \E c \in FairCalls, d \in Calls \ FairCalls :
        /\ ReturnedPath(c) /\ loc[c].renames = 1
        /\ pc[d] = "Copy" /\ loc[d].path = loc[c].path
        /\ loc[d].size < loc[d].expectSize

\* C19: a step that makes a repository (WithJujuAttrs, WithTestMode) leaves
\* what requests through every repository there was carry, the header
\* values and the stats parameter, as before the step; and the requests
\* through the repository it returns carry the new header values, one
\* "key=value" per pair, or the stats parameter "0", or those of a new
\* client.
C19_ReceiverUnchanged ==
    [][/\ \A s \in DOMAIN repos :
            /\ RequestHeader(s)' = RequestHeader(s)
            /\ RequestStats(s)' = RequestStats(s)
       /\ \A t \in DOMAIN repos' \ DOMAIN repos :
            \/ RequestStats(t)' = <<"0">>
            \/ \E attrs \in AttrMaps : RequestHeader(t)' \in JujuMetadataHeaders(attrs)]_vars

====
